---- MODULE Spec2Model ----
(***************************************************************************)
(* Model of analysis_engine/yahoo/extract_df_from_redis.py: the four       *)
(* extract entry points (pricing, news, option calls, option puts), the    *)
(* request they read, and the collaborators they call (store fetch, table  *)
(* decoder, scrub routine, generic perform_extract).                       *)
(*                                                                         *)
(* One invocation is one action.  The collaborators are outside the        *)
(* module, so what they answer is an input of the action: the store's      *)
(* response (or fault), the scrub routine's result (or fault) and          *)
(* perform_extract's result (or fault).  Faults raised by the store fetch  *)
(* and by the decoder are Exception-derived (connection, key, type and     *)
(* value errors), which is what `except Exception` catches.                *)
(***************************************************************************)
EXTENDS Integers, Sequences, FiniteSets, TLC

\* ------------------------------------------------------------------------
\* Bounds
\* ------------------------------------------------------------------------
\* largest number of rows of a serialized option table
MaxRows == 2

\* ------------------------------------------------------------------------
\* Python values
\* ------------------------------------------------------------------------
None == [none |-> TRUE]
Str(s) == [str |-> s]
IntVal(n) == [int |-> n]
\* the value of the expression `x,` : a tuple of one element
Tuple1(x) == [tuple |-> <<x>>]

\* status codes imported from analysis_engine.consts
SUCCESS == "SUCCESS"
ERR == "ERR"
NOT_RUN == "NOT_RUN"
Statuses == {SUCCESS, ERR, NOT_RUN}

\* the result of evaluating an expression: a value, or a raised fault
Ok(v) == [ok |-> TRUE, val |-> v]
Raise(f) == [ok |-> FALSE, fault |-> f]

\* a dict is a function from its keys to values; EmptyDict is {}
EmptyDict == [k \in {} |-> None]

\* d.get(k, default)
DictGet(d, k, default) == IF k \in DOMAIN d THEN d[k] ELSE default

\* d[k] : KeyError when k is missing, TypeError when d is None
Subscript(d, k) ==
    IF d = None THEN Raise("TypeError")
    ELSE IF k \in DOMAIN d THEN Ok(d[k])
    ELSE Raise("KeyError")

\* d[k] = v on a dict
SetItem(d, k, v) == [x \in DOMAIN d \cup {k} |-> IF x = k THEN v ELSE d[x]]

\* ------------------------------------------------------------------------
\* Requests (work_dict) a caller can build
\* ------------------------------------------------------------------------
RequestKeys ==
    {"redis_key", "s3_key", "pricing", "news", "options",
     "redis_host", "redis_port", "redis_db"}

FullRequest ==
    [k \in RequestKeys |->
        CASE k = "redis_key" -> Str("opt:AAPL")
          [] k = "s3_key" -> Str("s3:AAPL")
          [] k = "pricing" -> Str("pricing:AAPL")
          [] k = "news" -> Str("news:AAPL")
          [] k = "options" -> Str("options:AAPL")
          [] k = "redis_host" -> Str("h")
          [] k = "redis_port" -> IntVal(6379)
          [] k = "redis_db" -> IntVal(0)]

Requests == {[k \in D |-> FullRequest[k]] : D \in SUBSET RequestKeys}

\* ------------------------------------------------------------------------
\* Serialized tables (orient='records': an array of row objects)
\* ------------------------------------------------------------------------
\* a row object; a serialized table is a sequence of the tokens
\* "[", "]", "," and row objects
Rows == {"r1", "r2"}

Table(rows) == [rows |-> rows]
Json(tokens) == [json |-> tokens]

RowSeqs == UNION {[1..n -> Rows] : n \in 0..MaxRows}

\* the row-oriented serialization of a table, as the store holds it
ToJson(rows) ==
    <<"[">> \o
    [i \in 1..(IF Len(rows) = 0 THEN 0 ELSE 2 * Len(rows) - 1) |->
        IF i % 2 = 1 THEN rows[(i + 1) \div 2] ELSE ","] \o
    <<"]">>

\* texts no decoder accepts: empty, unterminated, unopened, missing row
Malformed == {<< >>, <<"[", "r1">>, <<"r1", "]">>, <<"[", ",", "]">>}

Texts == {Json(ToJson(rows)) : rows \in RowSeqs} \cup {Json(t) : t \in Malformed}

\* pd.read_json(text, orient='records'): the table of the rows of the
\* array, ValueError when the text is not an array of row objects
ReadJson(text) ==
    LET t == text.json
        n == Len(t)
        inner == IF n >= 2 THEN SubSeq(t, 2, n - 1) ELSE << >>
        wellFormed ==
            /\ n >= 2
            /\ t[1] = "["
            /\ t[n] = "]"
            /\ \/ inner = << >>
               \/ /\ Len(inner) % 2 = 1
                  /\ \A i \in 1..Len(inner) :
                        IF i % 2 = 1 THEN inner[i] \in Rows ELSE inner[i] = ","
    IN IF wellFormed
       THEN Ok(Table([i \in 1..((Len(inner) + 1) \div 2) |-> inner[2 * i - 1]]))
       ELSE Raise("ValueError")

\* ------------------------------------------------------------------------
\* What the collaborators can answer
\* ------------------------------------------------------------------------
\* rec.data of an options record: exp_date, calls, puts, each possibly missing
DataRecords ==
    UNION {
        {[k \in D |-> IF k = "exp_date" THEN Str("2024-01-19")
                      ELSE IF k = "calls" THEN c ELSE p] :
            c \in Texts, p \in Texts} :
        D \in SUBSET {"exp_date", "calls", "puts"}}

RecValues ==
    {None, EmptyDict} \cup {[k \in {"data"} |-> d] : d \in DataRecords}

\* the mapping get_data_from_redis_key returns
FetchResults ==
    {EmptyDict}
    \cup {[k \in {"status"} |-> s] : s \in Statuses}
    \cup {[k \in {"status", "rec"} |-> IF k = "status" THEN s ELSE r] :
            s \in Statuses, r \in RecValues}

\* the store fetch returns a mapping or raises a connection-level fault
FetchOutcomes ==
    {Ok(r) : r \in FetchResults} \cup {Raise("ConnectionError")}

\* the scrub routine returns a table of its own choosing, or nothing,
\* or raises
ScrubOutcomes(df) ==
    {Ok(None), Ok(df), Ok(Table(<<"r2">>)), Raise("ScrubFault")}

\* perform_extract returns a (status, table) pair or raises; it receives
\* the request object and may write to it
PerformOutcomes ==
    {Ok([status |-> s, table |-> t]) :
        s \in Statuses, t \in {None, Table(<<"r1">>)}}
    \cup {Raise("ExtractFault")}

\* ------------------------------------------------------------------------
\* The options path: extract_option_calls_dataset / extract_option_puts_dataset
\* ------------------------------------------------------------------------
Sides == {"calls", "puts"}

\* the entry points reading each other's field
SideFieldSwapped(side) == IF side = "calls" THEN "puts" ELSE "calls"

\* the field of rec.data an entry point decodes
SideField(side) == IF side = "calls" THEN "calls" ELSE "puts"

\* key resolution without the options alias fallback
ResolveRedisKeyNoAlias(wd) ==
    DictGet(wd, "redis_key", Str("missing-redis-key"))

\* redis_key = work_dict.get('redis_key', work_dict.get('options', ...))
ResolveRedisKey(wd) ==
    DictGet(wd, "redis_key", DictGet(wd, "options", Str("missing-redis-key")))

\* s3_key = work_dict.get('s3_key', work_dict.get('options', ...))
ResolveS3Key(wd) ==
    DictGet(wd, "s3_key", DictGet(wd, "options", Str("missing-s3-key")))

\* connection parameters read with .get, defaulting to None
ConnParamsDefaulted(wd) ==
    Ok([host |-> Tuple1(DictGet(wd, "redis_host", None)),
        port |-> Tuple1(DictGet(wd, "redis_port", None)),
        db |-> Tuple1(DictGet(wd, "redis_db", None))])

\* redis_host = work_dict['redis_host'],   (and port, db): each
\* statement ends in a comma, so each local is a tuple of one element
ConnParams(wd) ==
    LET h == Subscript(wd, "redis_host")
        p == Subscript(wd, "redis_port")
        d == Subscript(wd, "redis_db")
    IN IF ~h.ok THEN h
       ELSE IF ~p.ok THEN p
       ELSE IF ~d.ok THEN d
       ELSE Ok([host |-> Tuple1(h.val),
                port |-> Tuple1(p.val),
                db |-> Tuple1(d.val)])

\* the keyword arguments of redis_get.get_data_from_redis_key
FetchArgs(wd, conn, key) ==
    [host |-> conn.host,
     port |-> conn.port,
     db |-> conn.db,
     password |-> DictGet(wd, "password", None),
     key |-> key]

\* exp_date read with .get, defaulting to None
ReadExpDateLenient(data) == Ok(DictGet(data, "exp_date", None))

\* exp_date_str = redis_rec['rec']['data']['exp_date']
ReadExpDate(data) == Subscript(data, "exp_date")

\* the SUCCESS branch: rec, data, exp_date, the side's field, read_json;
\* the first fault ends it
DecodeSide(side, redis_rec) ==
    LET rec == Subscript(redis_rec, "rec")
        data == IF rec.ok THEN Subscript(rec.val, "data") ELSE rec
        exp == IF data.ok THEN ReadExpDate(data.val) ELSE data
        text == IF exp.ok THEN Subscript(data.val, SideField(side)) ELSE exp
    IN [res |-> IF text.ok THEN ReadJson(text.val) ELSE text,
        readJsonCalls |-> IF text.ok THEN <<text.val>> ELSE << >>]

\* an except clause that returns the status as it stands
ExceptStatusKept(status) == status

\* the status the except clause returns
ExceptStatus(status) == ERR

\* the try block: fetch, status, decode on SUCCESS.  returned is TRUE
\* when the except clause returned (status, None)
FetchAndDecode(side, fetchOut) ==
    LET st == IF fetchOut.ok THEN Subscript(fetchOut.val, "status") ELSE fetchOut
        dec == DecodeSide(side, fetchOut.val)
    IN IF ~st.ok
       THEN [returned |-> TRUE, status |-> ExceptStatus(NOT_RUN),
             df |-> None, readJsonCalls |-> << >>]
       ELSE IF st.val = SUCCESS
       THEN IF dec.res.ok
            THEN [returned |-> FALSE, status |-> st.val,
                  df |-> dec.res.val, readJsonCalls |-> dec.readJsonCalls]
            ELSE [returned |-> TRUE, status |-> ExceptStatus(st.val),
                  df |-> None, readJsonCalls |-> dec.readJsonCalls]
       ELSE [returned |-> FALSE, status |-> st.val,
             df |-> None, readJsonCalls |-> << >>]

\* a scrub fault caught and turned into (ERR, None)
ScrubSwallowed(fault) == [kind |-> "return", status |-> ERR, table |-> None]

\* what the invocation does when the scrub routine raises
ScrubRaised(fault) == [kind |-> "raise", fault |-> fault]

\* status = SUCCESS after the scrub routine returned
FinalStatus(status) == SUCCESS

Returned(status, table) == [kind |-> "return", status |-> status, table |-> table]

\* one invocation of an options entry point on work_dict wd, with the
\* store answering fetchOut and the scrub routine answering scrubOut
ExtractOptionSide(side, wd, fetchOut, scrubOut) ==
    LET key == ResolveRedisKey(wd)
        s3 == ResolveS3Key(wd)
        conn == ConnParams(wd)
        fd == FetchAndDecode(side, fetchOut)
        base == [redis_key |-> key, s3_key |-> s3,
                 fetchCalls |-> << >>, redis_rec |-> <<>>,
                 readJsonCalls |-> << >>, scrubCalls |-> << >>,
                 scrubOuts |-> << >>,
                 outcome |-> [kind |-> "none"]]
    IN IF ~conn.ok
       THEN [base EXCEPT !.outcome = [kind |-> "raise", fault |-> conn.fault]]
       ELSE LET fetched ==
                    [base EXCEPT !.fetchCalls = <<FetchArgs(wd, conn.val, key)>>,
                                 !.redis_rec = <<fetchOut>>,
                                 !.readJsonCalls = fd.readJsonCalls]
            IN IF fd.returned
               THEN [fetched EXCEPT !.outcome = Returned(fd.status, None)]
               ELSE [fetched EXCEPT
                        !.scrubCalls = <<fd.df>>,
                        !.scrubOuts = <<scrubOut>>,
                        !.outcome =
                            IF scrubOut.ok
                            THEN Returned(FinalStatus(fd.status), scrubOut.val)
                            ELSE ScrubRaised(scrubOut.fault)]

\* req = work_dict: a second name for the caller's object
SameObject(heap) == [ref |-> "work_dict", heap |-> heap]

\* ------------------------------------------------------------------------
\* The pricing / news path
\* ------------------------------------------------------------------------
\* req = copy.deepcopy(work_dict): a new object holding the same entries
DeepCopy(heap) == [ref |-> "req", heap |-> [heap EXCEPT !.req = heap.work_dict]]

\* obj[k] = v through a reference
StoreItem(heap, ref, k, v) == [heap EXCEPT ![ref] = SetItem(heap[ref], k, v)]

\* the substitution setting redis_key only
NormalizeRedisKeyOnly(alias, heap, ref) ==
    IF "redis_key" \notin DOMAIN heap.work_dict /\ alias \in DOMAIN heap[ref]
    THEN StoreItem(heap, ref, "redis_key", heap[ref][alias])
    ELSE heap

\* if 'redis_key' not in work_dict: if alias in req:
\*     req['redis_key'] = req[alias]; req['s3_key'] = req[alias]
Normalize(alias, heap, ref) ==
    IF "redis_key" \notin DOMAIN heap.work_dict /\ alias \in DOMAIN heap[ref]
    THEN LET h1 == StoreItem(heap, ref, "redis_key", heap[ref][alias])
         IN StoreItem(h1, ref, "s3_key", h1[ref][alias])
    ELSE heap

AliasField(entry) == IF entry = "pricing" THEN "pricing" ELSE "news"

\* one invocation of extract_pricing_dataset / extract_yahoo_news_dataset;
\* perform_extract answers performOut and, when mutates, writes to the
\* request object it was given
ExtractViaPerform(entry, heap, performOut, mutates) ==
    LET cp == DeepCopy(heap)
        h1 == Normalize(AliasField(entry), cp.heap, cp.ref)
        h2 == IF mutates THEN StoreItem(h1, cp.ref, "redis_key", Str("rewritten")) ELSE h1
    IN [heap |-> h2,
        performCalls |-> <<h1[cp.ref]>>,
        outcome |-> IF performOut.ok
                    THEN Returned(performOut.val.status, performOut.val.table)
                    ELSE [kind |-> "raise", fault |-> performOut.fault]]

\* ------------------------------------------------------------------------
\* State
\* ------------------------------------------------------------------------
VARIABLES
    request,        \* the mapping the caller built
    heap,           \* the caller's mapping object (work_dict) and the copy (req)
    entry,          \* the entry point invoked, "none" before the call
    redis_key,      \* the resolved redis_key (options path)
    s3_key,         \* the resolved s3_key (options path)
    fetchCalls,     \* arguments of the calls of the store fetch
    redis_rec,      \* what the store fetch answered
    readJsonCalls,  \* texts handed to the decoder
    scrubCalls,     \* tables handed to the scrub routine
    scrubOuts,      \* what the scrub routine answered
    performCalls,   \* requests handed to perform_extract
    outcome         \* what the invocation returned or raised

vars == <<request, heap, entry, redis_key, s3_key, fetchCalls, redis_rec,
          readJsonCalls, scrubCalls, scrubOuts, performCalls, outcome>>

Init ==
    /\ request \in Requests
    /\ heap = [work_dict |-> request, req |-> None]
    /\ entry = "none"
    /\ redis_key = None
    /\ s3_key = None
    /\ fetchCalls = << >>
    /\ redis_rec = << >>
    /\ readJsonCalls = << >>
    /\ scrubCalls = << >>
    /\ scrubOuts = << >>
    /\ performCalls = << >>
    /\ outcome = [kind |-> "none"]

OptionCall(side) ==
    /\ entry = "none"
    /\ \E fetchOut \in FetchOutcomes :
       \E scrubOut \in ScrubOutcomes(FetchAndDecode(side, fetchOut).df) :
          LET r == ExtractOptionSide(side, heap.work_dict, fetchOut, scrubOut)
          IN /\ entry' = side
             /\ redis_key' = r.redis_key
             /\ s3_key' = r.s3_key
             /\ fetchCalls' = r.fetchCalls
             /\ redis_rec' = r.redis_rec
             /\ readJsonCalls' = r.readJsonCalls
             /\ scrubCalls' = r.scrubCalls
             /\ scrubOuts' = r.scrubOuts
             /\ outcome' = r.outcome
    /\ UNCHANGED <<request, heap, performCalls>>

extract_option_calls_dataset == OptionCall("calls")

extract_option_puts_dataset == OptionCall("puts")

PerformCall(e) ==
    /\ entry = "none"
    /\ \E performOut \in PerformOutcomes : \E mutates \in BOOLEAN :
          LET r == ExtractViaPerform(e, heap, performOut, mutates)
          IN /\ entry' = e
             /\ heap' = r.heap
             /\ performCalls' = r.performCalls
             /\ outcome' = r.outcome
    /\ UNCHANGED <<request, redis_key, s3_key, fetchCalls, redis_rec,
                   readJsonCalls, scrubCalls, scrubOuts>>

extract_pricing_dataset == PerformCall("pricing")

extract_yahoo_news_dataset == PerformCall("news")

Next ==
    \/ extract_pricing_dataset
    \/ extract_yahoo_news_dataset
    \/ extract_option_calls_dataset
    \/ extract_option_puts_dataset

Spec == Init /\ [][Next]_vars

\* ------------------------------------------------------------------------
\* Properties
\* ------------------------------------------------------------------------
OptionsInvoked == entry \in Sides

\* the store fetch was invoked and returned a mapping with a status
FetchAnswered ==
    /\ Len(fetchCalls) = 1
    /\ redis_rec[1].ok
    /\ "status" \in DOMAIN redis_rec[1].val

FetchStatus == redis_rec[1].val.status

FetchRaised == Len(fetchCalls) = 1 /\ ~redis_rec[1].ok

\* rec and rec.data are there
HasData ==
    /\ "rec" \in DOMAIN redis_rec[1].val
    /\ redis_rec[1].val.rec # None
    /\ "data" \in DOMAIN redis_rec[1].val.rec

FetchData == redis_rec[1].val.rec.data

\* the serialized tables: the texts that are the serialization of a table
Decodable(text) == \E rows \in RowSeqs : text = Json(ToJson(rows))

\* the side's field is there and is a serialized table
SideDecodable == entry \in DOMAIN FetchData /\ Decodable(FetchData[entry])

WellFormedRecord == HasData /\ "exp_date" \in DOMAIN FetchData /\ SideDecodable

ConnKeys == {"redis_host", "redis_port", "redis_db"}

\* the keys as the request resolves them
ExpectedRedisKey ==
    IF "redis_key" \in DOMAIN request THEN request["redis_key"]
    ELSE IF "options" \in DOMAIN request THEN request["options"]
    ELSE Str("missing-redis-key")

ExpectedS3Key ==
    IF "s3_key" \in DOMAIN request THEN request["s3_key"]
    ELSE IF "options" \in DOMAIN request THEN request["options"]
    ELSE Str("missing-s3-key")

\* C1: an options invocation whose store fetch returns a status other than
\* SUCCESS returns (that status, None) and invokes neither the decoder nor
\* the scrub routine.
C1_NonSuccessPassedThrough ==
    (OptionsInvoked /\ FetchAnswered /\ FetchStatus # SUCCESS) =>
        /\ outcome = Returned(FetchStatus, None)
        /\ readJsonCalls = << >>
        /\ scrubCalls = << >>

\* C2: an options invocation whose store fetch raises, or answers SUCCESS
\* with a record lacking rec, data or the side's field, or holding an
\* undecodable table, returns (ERR, None), raises nothing and never
\* invokes the scrub routine.
C2_FaultsBecomeErr ==
    (/\ OptionsInvoked
     /\ \/ FetchRaised
        \/ /\ FetchAnswered
           /\ FetchStatus = SUCCESS
           /\ ~(HasData /\ SideDecodable)) =>
        /\ outcome = Returned(ERR, None)
        /\ scrubCalls = << >>

C2_RaisedWitness ==
    OptionsInvoked /\ FetchRaised /\ outcome = Returned(ERR, None)

C2_Witness ==
    /\ OptionsInvoked /\ FetchAnswered /\ FetchStatus = SUCCESS
    /\ HasData /\ "exp_date" \in DOMAIN FetchData
    /\ entry \in DOMAIN FetchData /\ ~Decodable(FetchData[entry])
    /\ readJsonCalls # << >>
    /\ outcome = Returned(ERR, None)

\* C3: when the scrub routine is invoked and raises, the options
\* invocation raises that same fault and returns nothing.
C3_ScrubFaultPropagates ==
    (OptionsInvoked /\ Len(scrubOuts) = 1 /\ ~scrubOuts[1].ok) =>
        outcome = [kind |-> "raise", fault |-> scrubOuts[1].fault]

C3_Witness ==
    /\ OptionsInvoked /\ Len(scrubCalls) = 1 /\ ~scrubOuts[1].ok
    /\ FetchAnswered /\ FetchStatus = SUCCESS
    /\ outcome.kind = "raise"

\* C4: on SUCCESS with a well-formed record and a scrub routine that
\* returns, the options invocation returns (SUCCESS, T), T being what the
\* scrub routine returned when handed the table decoded from the side's
\* field, whatever T is.
C4_SuccessReturnsScrubbed ==
    (/\ OptionsInvoked /\ FetchAnswered /\ FetchStatus = SUCCESS
     /\ WellFormedRecord
     /\ Len(scrubOuts) = 1 => scrubOuts[1].ok) =>
        /\ Len(scrubCalls) = 1
        /\ Len(scrubOuts) = 1
        /\ \E rows \in RowSeqs :
              /\ FetchData[entry] = Json(ToJson(rows))
              /\ scrubCalls[1] = Table(rows)
        /\ outcome = Returned(SUCCESS, scrubOuts[1].val)

C4_Witness ==
    /\ entry = "puts" /\ FetchAnswered /\ FetchStatus = SUCCESS
    /\ WellFormedRecord
    /\ "calls" \in DOMAIN FetchData
    /\ FetchData["calls"] # FetchData["puts"]
    /\ scrubCalls = <<Table(<<"r1", "r2">>)>>
    /\ scrubOuts = <<Ok(None)>>
    /\ outcome = Returned(SUCCESS, None)

\* the alias field of the entry point invoked
EntryAlias == IF entry = "pricing" THEN "pricing" ELSE "news"

\* C5: the request extract_pricing_dataset / extract_yahoo_news_dataset
\* hands to perform_extract has redis_key and s3_key equal to the alias
\* value when redis_key is absent and the alias is present, and has the
\* caller's redis_key and s3_key entries when redis_key is present.
C5_AliasNormalization ==
    entry \in {"pricing", "news"} =>
        /\ Len(performCalls) = 1
        /\ ("redis_key" \notin DOMAIN request /\ EntryAlias \in DOMAIN request) =>
              /\ {"redis_key", "s3_key"} \subseteq DOMAIN performCalls[1]
              /\ performCalls[1]["redis_key"] = request[EntryAlias]
              /\ performCalls[1]["s3_key"] = request[EntryAlias]
        /\ "redis_key" \in DOMAIN request =>
              \A k \in {"redis_key", "s3_key"} :
                 /\ k \in DOMAIN performCalls[1] <=> k \in DOMAIN request
                 /\ k \in DOMAIN request => performCalls[1][k] = request[k]

C5_Witness ==
    /\ entry = "news"
    /\ "redis_key" \notin DOMAIN request
    /\ "news" \in DOMAIN request
    /\ "s3_key" \in DOMAIN request
    /\ performCalls[1]["s3_key"] = request["news"]

\* C6: the host, port and db handed to the store fetch are the values
\* stored under redis_host, redis_port and redis_db, unwrapped and
\* unconverted, and the key is the resolved redis_key.
C6_ConnParamsVerbatim ==
    (OptionsInvoked /\ Len(fetchCalls) = 1) =>
        /\ fetchCalls[1].host = request["redis_host"]
        /\ fetchCalls[1].port = request["redis_port"]
        /\ fetchCalls[1].db = request["redis_db"]
        /\ fetchCalls[1].key = ExpectedRedisKey

\* C7: an options invocation on a request lacking redis_host, redis_port
\* or redis_db raises to the caller and invokes neither the store fetch
\* nor the scrub routine.
C7_MissingConnParamRaises ==
    (OptionsInvoked /\ ~(ConnKeys \subseteq DOMAIN request)) =>
        /\ outcome = [kind |-> "raise", fault |-> "KeyError"]
        /\ fetchCalls = << >>
        /\ scrubCalls = << >>

C7_Witness ==
    /\ OptionsInvoked
    /\ "redis_port" \notin DOMAIN request
    /\ {"redis_host", "redis_db", "redis_key"} \subseteq DOMAIN request
    /\ outcome.kind = "raise"

\* C8: key resolution of an options invocation yields redis_key = the
\* request's redis_key, else its options value, else "missing-redis-key",
\* and s3_key likewise with "missing-s3-key"; nothing stands between the
\* resolution and the store fetch, which gets the resolved redis_key,
\* sentinel included.
C8_KeyResolution ==
    OptionsInvoked =>
        /\ redis_key = ExpectedRedisKey
        /\ s3_key = ExpectedS3Key
        /\ ConnKeys \subseteq DOMAIN request =>
              /\ Len(fetchCalls) = 1
              /\ fetchCalls[1].key = ExpectedRedisKey

C8_Witness ==
    /\ OptionsInvoked
    /\ {"redis_key", "options"} \cap DOMAIN request = {}
    /\ Len(fetchCalls) = 1
    /\ fetchCalls[1].key = Str("missing-redis-key")
    /\ s3_key = Str("missing-s3-key")

\* C9: after an invocation of any of the four entry points, however it
\* ends, the caller's request mapping holds the entries it was built with.
C9_RequestUnchanged ==
    entry # "none" => heap.work_dict = request

C9_Witness ==
    /\ entry = "pricing"
    /\ "redis_key" \notin DOMAIN request
    /\ "pricing" \in DOMAIN request
    /\ performCalls[1] # request
    /\ heap.req # performCalls[1]
    /\ outcome.kind = "raise"

\* C10: on SUCCESS with a record whose data lacks exp_date, the options
\* invocation returns (ERR, None) and invokes neither the decoder nor the
\* scrub routine, whatever the side's field holds.
C10_MissingExpDate ==
    (/\ OptionsInvoked /\ FetchAnswered /\ FetchStatus = SUCCESS
     /\ HasData /\ "exp_date" \notin DOMAIN FetchData) =>
        /\ outcome = Returned(ERR, None)
        /\ readJsonCalls = << >>
        /\ scrubCalls = << >>

C10_Witness ==
    /\ OptionsInvoked /\ FetchAnswered /\ FetchStatus = SUCCESS
    /\ HasData /\ "exp_date" \notin DOMAIN FetchData
    /\ SideDecodable
    /\ outcome = Returned(ERR, None)

====
